---- MODULE Spec2Model ----
(***************************************************************************)
(* Masonry layout of roostergrin/image-picker.                             *)
(*                                                                         *)
(* The model follows useMasonryColumns (the memoised layout computation),  *)
(* getResponsiveColumns, getResponsiveGap and the host component that      *)
(* keeps containerWidth in state and feeds it from a ResizeObserver.       *)
(*                                                                         *)
(* JavaScript numbers are modelled as exact rationals <<n, d>> with d > 0  *)
(* in lowest terms, so divisions are not rounded: an equality that holds   *)
(* here holds in the build up to IEEE-754 rounding of `/` and `+`.         *)
(* A `number | null` field is <<>> for null and <<n>> for the number n.    *)
(***************************************************************************)
EXTENDS Integers, Sequences, FiniteSets, TLC

VARIABLES
    images,          \* the hook's `images` argument (T[])
    containerWidth,  \* useState(1200) of the host component
    gap,             \* options.gap, computed by the host on each render
    columns,         \* const columns: MasonryColumn<T>[]
    columnHeights,   \* const columnHeights: number[]
    columnCount,     \* columnCount of the memo body / of the returned object
    columnWidth,     \* columnWidth of the memo body / of the returned object
    i,               \* position of images.forEach (1-based; 0 = never started)
    pc,              \* "pack" inside forEach, "done" once returned, "error" on a throw
    memoDeps,        \* the dependency values [images, containerWidth, gap] useMemo keeps
    card,            \* the URL fields of the image whose card is on screen: <<>> or <<image>>
    src,             \* the src handed to <Image> for that card
    copied,          \* the last onCopyUrl(url, label) call: <<>> or <<url, label>>
    loop,            \* the failover loop that runs: "none" or the function's name
    backendUrls,     \* the list the loop goes through (backendUrls / BACKEND_URLS)
    urlIdx,          \* position of `for (const baseUrl of ...)` (1-based)
    contacted,       \* the requests sent so far, in order: [url, reply]
    lastError,       \* let lastError: Error | null: <<>> or <<error>>
    outcome,         \* how the loop ended: <<>>, <<"return", data>> or <<"throw", error>>
    response,        \* the route's NextResponse: <<>> or <<[status, authenticated]>>
    homeImages,      \* Home: useState<AdobeStockImage[]>([]), each image with the filters it was fetched for
    loading,         \* Home: useState(false)
    loadingMore,     \* Home: useState(false)
    homeError,       \* Home: useState<string | null>(null): "null" or "set"
    searchFilters,   \* Home: useState<SearchFilters>({})
    pagination,      \* Home: [current_page, has_more]
    requests,        \* the searchImages calls waiting at `await apiClient.get`
    token,           \* TokenGate: useState('')
    verified,        \* TokenGate: useState(false)
    gateError,       \* TokenGate: useState<string | null>(null): <<>> or <<message>>
    checking,        \* TokenGate: useState(false)
    initialized,     \* TokenGate: useState(false)
    inMemoryInternalApiKey,  \* apiService: string | null, <<>> or <<key>>
    localToken,      \* localStorage INTERNAL_API_TOKEN: <<>> or <<token>>
    legacyToken,     \* localStorage internalApiToken: <<>> or <<token>>
    health,          \* the /api/health request in flight: <<>> or <<[key, by]>>
    lastHealth,      \* the latest finished health check: <<>> or <<[key, ok]>>
    mounted          \* the mount effect of TokenGate has run

urlVars == <<card, src, copied>>

backendVars == <<loop, backendUrls, urlIdx, contacted, lastError, outcome, response>>

homeVars == <<homeImages, loading, loadingMore, homeError, searchFilters, pagination, requests>>

gateVars == <<token, verified, gateError, checking, initialized, inMemoryInternalApiKey,
              localToken, legacyToken, health, lastHealth, mounted>>

vars == <<images, containerWidth, gap, columns, columnHeights, columnCount,
          columnWidth, i, pc, memoDeps, card, src, copied, backendVars, homeVars, gateVars>>

----------------------------------------------------------------------------
(* Bounds of the model *)

MaxItems == 3

\* the pages a result list is loaded up to
MaxPage == 3

\* the searchImages calls that wait for their response at the same time
MaxInFlight == 2

----------------------------------------------------------------------------
(* Exact arithmetic standing for JavaScript numbers *)

Abs(n) == IF n < 0 THEN -n ELSE n

RECURSIVE GCD(_, _)
GCD(a, b) == IF b = 0 THEN a ELSE GCD(b, a % b)

Rat(n, d) ==
    LET s == IF d < 0 THEN -1 ELSE 1
        g == GCD(Abs(n), Abs(d))
    IN  <<(s * n) \div g, (s * d) \div g>>

RatOf(n) == <<n, 1>>

Zero == RatOf(0)

RatAdd(a, b) == Rat(a[1] * b[2] + b[1] * a[2], a[2] * b[2])

RatSub(a, b) == Rat(a[1] * b[2] - b[1] * a[2], a[2] * b[2])

RatMul(a, b) == Rat(a[1] * b[1], a[2] * b[2])

RatDiv(a, b) == Rat(a[1] * b[2], a[2] * b[1])

RatLeq(a, b) == a[1] * b[2] <= b[1] * a[2]

RatLt(a, b) == a[1] * b[2] < b[1] * a[2]

----------------------------------------------------------------------------
(* Nullable numbers: image.width and image.height are `number | null` *)

Null == <<>>

Num(n) == <<n>>

\* !x for x: number | null
Falsy(x) == x = Null \/ x[1] = 0

\* x <= 0 for x: number | null (null converts to 0)
LeqZero(x) == IF x = Null THEN TRUE ELSE x[1] <= 0

----------------------------------------------------------------------------
(* Inputs *)

\* offsetWidth values delivered to updateWidth: non-negative integers,
\* taken on both sides of every breakpoint
Widths == {0, 1, 639, 640, 1023, 1024, 1200, 1439, 1440}

\* (width, height) pairs an image can carry
Dims == { <<Num(400), Num(300)>>, <<Num(100), Num(300)>>,
          <<Null, Num(300)>>, <<Num(400), Null>>,
          <<Num(0), Num(300)>>, <<Num(400), Num(0)>>,
          <<Num(-400), Num(300)>>, <<Num(400), Num(-300)>> }

RECURSIVE SeqsUpTo(_, _)
SeqsUpTo(S, n) ==
    IF n = 0 THEN {<<>>}
    ELSE LET shorter == SeqsUpTo(S, n - 1)
         IN  shorter \cup { Append(s, x) : s \in {t \in shorter : Len(t) = n - 1}, x \in S }

\* an image list: ids are unique (the position in the list)
MkImages(ds) == [k \in 1..Len(ds) |-> [id |-> k, width |-> ds[k][1], height |-> ds[k][2]]]

ImageLists == { MkImages(ds) : ds \in SeqsUpTo(Dims, MaxItems) }

\* mockImages of the debug page
mockImages ==
    MkImages(<< <<Num(400), Num(300)>>, <<Num(300), Num(500)>>, <<Num(600), Num(400)>>,
                <<Num(400), Num(600)>>, <<Num(500), Num(300)>>, <<Num(300), Num(400)>>,
                <<Num(700), Num(300)>>, <<Num(400), Num(500)>> >>)

\* the first five of them
WorkedItems == SubSeq(mockImages, 1, 5)

\* the arrays a host can be mounted with
InitialLists == ImageLists \cup {mockImages, WorkedItems}

\* the arrays a new search hands over in place of the current one
ReplacementLists == { imgs \in ImageLists : Len(imgs) <= 1 }

----------------------------------------------------------------------------
(* Breakpoints *)

\* getColumnCount with the first breakpoint made inclusive (width <= 640)
M_getColumnCount_inclusive(width) ==
    IF width <= 640 THEN 2
    ELSE IF width < 1024 THEN 3
    ELSE IF width < 1440 THEN 4
    ELSE 5

\* getColumnCount with the tablet and desktop results exchanged
M_getColumnCount_swapped(width) ==
    IF width < 640 THEN 2
    ELSE IF width < 1024 THEN 4
    ELSE IF width < 1440 THEN 3
    ELSE 5

\* the closure inside the memo body
getColumnCount(width) ==
    IF width < 640 THEN 2
    ELSE IF width < 1024 THEN 3
    ELSE IF width < 1440 THEN 4
    ELSE 5

\* the exported helper
getResponsiveColumns(width) ==
    IF width < 640 THEN 2
    ELSE IF width < 1024 THEN 3
    ELSE IF width < 1440 THEN 4
    ELSE 5

\* getResponsiveGap with the second breakpoint made inclusive (width <= 1024)
M_getResponsiveGap_inclusive(width) ==
    IF width < 640 THEN 8
    ELSE IF width <= 1024 THEN 12
    ELSE 16

getResponsiveGap(width) ==
    IF width < 640 THEN 8
    ELSE IF width < 1024 THEN 12
    ELSE 16

----------------------------------------------------------------------------
(* useMasonryColumns: the memo body up to the forEach *)

\* the early return taken only when both conditions hold (&& for ||)
M_NoLayout_and(imgs, cw) == Len(imgs) = 0 /\ cw <= 0

\* if (!images.length || containerWidth <= 0)
NoLayout(imgs, cw) == Len(imgs) = 0 \/ cw <= 0

\* the column width with one gap counted per column (columnCount * gap)
M_ColumnWidthOf_allGaps(cw, cc, g) ==
    LET totalGaps == cc * g
    IN  Rat(cw - totalGaps, cc)

\* (containerWidth - (columnCount - 1) * gap) / columnCount
ColumnWidthOf(cw, cc, g) ==
    LET totalGaps == (cc - 1) * g
    IN  Rat(cw - totalGaps, cc)

\* columns numbered from 1
M_InitColumns_oneBased(cc) == [k \in 1..cc |-> [images |-> <<>>, columnIndex |-> k]]

\* for (let i = 0; i < columnCount; i++) { columns.push(...); columnHeights.push(0) }
InitColumns(cc) == [k \in 1..cc |-> [images |-> <<>>, columnIndex |-> k - 1]]

InitHeights(cc) == [k \in 1..cc |-> Zero]

\* the locals after the memo body has run up to the forEach, or the
\* returned object when the body returns early
MemoStart(imgs, cw, g) ==
    IF NoLayout(imgs, cw)
    THEN [columns |-> <<>>, columnHeights |-> <<>>, columnCount |-> 0,
          columnWidth |-> Zero, i |-> 0, pc |-> "done"]
    ELSE LET cc == getColumnCount(cw)
         IN  [columns |-> InitColumns(cc), columnHeights |-> InitHeights(cc),
              columnCount |-> cc, columnWidth |-> ColumnWidthOf(cw, cc, g),
              i |-> 1, pc |-> "pack"]

\* the dependency list without containerWidth: [images, gap]
M_DepsChanged_noWidth(old, new, newArray) ==
    \/ newArray
    \/ old[3] # new[3]

\* the dependency list reduced to [images]
M_DepsChanged_imagesOnly(old, new, newArray) == newArray

\* useMemo(..., [images, containerWidth, gap]): the body runs again when a
\* dependency differs from the kept one.  images is compared by reference:
\* newArray says that the host was handed another array object (the callers
\* never change an array in place, they build a new one)
DepsChanged(old, new, newArray) ==
    \/ newArray
    \/ old[2] # new[2]
    \/ old[3] # new[3]

\* one render of the host: gap from the width, then the hook, whose memo
\* body runs only when a dependency changed
Render(imgs, cw, newArray) ==
    LET g == getResponsiveGap(cw)
        m == MemoStart(imgs, cw, g)
        deps == <<imgs, cw, g>>
    IN  /\ images' = imgs
        /\ containerWidth' = cw
        /\ gap' = g
        /\ IF DepsChanged(memoDeps, deps, newArray)
           THEN /\ columns' = m.columns
                /\ columnHeights' = m.columnHeights
                /\ columnCount' = m.columnCount
                /\ columnWidth' = m.columnWidth
                /\ i' = m.i
                /\ pc' = m.pc
                /\ memoDeps' = deps
           ELSE UNCHANGED <<columns, columnHeights, columnCount, columnWidth, i, pc,
                            memoDeps>>

\* the route handlers and the API client before any request
InitBackend ==
    /\ loop = "none"
    /\ backendUrls = <<>>
    /\ urlIdx = 1
    /\ contacted = <<>>
    /\ lastError = <<>>
    /\ outcome = <<>>
    /\ response = <<>>

\* Home after its first render and its mount effect, searchImages({}): the
\* first page is being fetched
InitHome ==
    /\ homeImages = <<>>
    /\ loading = TRUE
    /\ loadingMore = FALSE
    /\ homeError = "null"
    /\ searchFilters = "{}"
    /\ pagination = [current_page |-> 1, has_more |-> FALSE]
    /\ requests = {[filters |-> "{}", page |-> 1, append |-> FALSE]}

\* TokenGate after its first render, with what localStorage holds
InitGate(saved, legacy) ==
    /\ token = ""
    /\ verified = FALSE
    /\ gateError = <<>>
    /\ checking = FALSE
    /\ initialized = FALSE
    /\ inMemoryInternalApiKey = <<>>
    /\ localToken = saved
    /\ legacyToken = legacy
    /\ health = <<>>
    /\ lastHealth = <<>>
    /\ mounted = FALSE

\* ImageGrid after its first render
InitGrid ==
    \E imgs \in InitialLists :
        LET g == getResponsiveGap(1200)
            m == MemoStart(imgs, 1200, g)
        IN  /\ images = imgs
            /\ containerWidth = 1200
            /\ gap = g
            /\ columns = m.columns
            /\ columnHeights = m.columnHeights
            /\ columnCount = m.columnCount
            /\ columnWidth = m.columnWidth
            /\ i = m.i
            /\ pc = m.pc
            /\ memoDeps = <<imgs, 1200, g>>
            /\ card = <<>>
            /\ src = <<>>
            /\ copied = <<>>

Init == InitGrid /\ InitBackend /\ InitHome /\ InitGate(<<>>, <<>>)

----------------------------------------------------------------------------
(* useMasonryColumns: the forEach *)

\* the skip test without the `<= 0` comparisons
M_Skipped_truthy(image) ==
    \/ Falsy(image.width)
    \/ Falsy(image.height)

\* the skip test also rejecting portrait images (width < height)
M_Skipped_portrait(image) ==
    \/ Falsy(image.width)
    \/ Falsy(image.height)
    \/ LeqZero(image.width)
    \/ LeqZero(image.height)
    \/ image.width[1] < image.height[1]

\* if (!image.width || !image.height || image.width <= 0 || image.height <= 0) return
Skipped(image) ==
    \/ Falsy(image.width)
    \/ Falsy(image.height)
    \/ LeqZero(image.width)
    \/ LeqZero(image.height)

\* const aspectRatio = image.width / image.height
aspectRatioOf(image) == RatDiv(RatOf(image.width[1]), RatOf(image.height[1]))

\* the height computed as columnWidth * aspectRatio
M_calculatedHeightOf_mul(image, cwidth) ==
    RatMul(cwidth, RatDiv(RatOf(image.width[1]), RatOf(image.height[1])))

\* const calculatedHeight = columnWidth / aspectRatio
calculatedHeightOf(image, cwidth) == RatDiv(cwidth, aspectRatioOf(image))

\* Math.max for Math.min
M_MathMin_max(hs) == CHOOSE m \in {hs[k] : k \in 1..Len(hs)} : \A k \in 1..Len(hs) : RatLeq(hs[k], m)

\* Math.min(columnHeights) without the spread: not a number of the array
M_MathMin_noSpread(hs) == <<0, 0>>

\* Math.min(...columnHeights)
MathMin(hs) == CHOOSE m \in {hs[k] : k \in 1..Len(hs)} : \A k \in 1..Len(hs) : RatLeq(m, hs[k])

\* lastIndexOf for indexOf
M_IndexOf_last(hs, v) ==
    IF \E k \in 1..Len(hs) : hs[k] = v
    THEN (CHOOSE k \in 1..Len(hs) : hs[k] = v /\ \A j \in (k + 1)..Len(hs) : hs[j] # v) - 1
    ELSE -1

\* columnHeights.indexOf(v): 0-based index of the first element equal to v, -1 if none
IndexOf(hs, v) ==
    IF \E k \in 1..Len(hs) : hs[k] = v
    THEN (CHOOSE k \in 1..Len(hs) : hs[k] = v /\ \A j \in 1..(k - 1) : hs[j] # v) - 1
    ELSE -1

\* every image sent to column 0
M_shortestColumnIndexOf_first(hs) == 0

\* the last column of minimal height (lastIndexOf for indexOf)
M_shortestColumnIndexOf_last(hs) ==
    LET v == MathMin(hs)
    IN  (CHOOSE k \in 1..Len(hs) : hs[k] = v /\ \A j \in (k + 1)..Len(hs) : hs[j] # v) - 1

shortestColumnIndexOf(hs) == IndexOf(hs, MathMin(hs))

\* width and height exchanged in the pushed object
M_PushImage_swapped(cols, idx, image, ch) ==
    [cols EXCEPT ![idx + 1].images =
        Append(@, [id |-> image.id, width |-> image.height, height |-> image.width,
                   calculatedHeight |-> ch])]

\* the image pushed twice
M_PushImage_twice(cols, idx, image, ch) ==
    LET placed == [id |-> image.id, width |-> image.width, height |-> image.height,
                   calculatedHeight |-> ch]
    IN  [cols EXCEPT ![idx + 1].images = Append(Append(@, placed), placed)]

\* unshift for push
M_PushImage_front(cols, idx, image, ch) ==
    [cols EXCEPT ![idx + 1].images =
        <<[id |-> image.id, width |-> image.width, height |-> image.height,
           calculatedHeight |-> ch]>> \o @]

\* columns[shortestColumnIndex].images.push({...image, calculatedHeight})
PushImage(cols, idx, image, ch) ==
    [cols EXCEPT ![idx + 1].images =
        Append(@, [id |-> image.id, width |-> image.width, height |-> image.height,
                   calculatedHeight |-> ch])]

\* the running height grown without the gap
M_AddHeight_noGap(hs, idx, ch, g) == [hs EXCEPT ![idx + 1] = RatAdd(@, ch)]

\* columnHeights[shortestColumnIndex] += calculatedHeight + gap
AddHeight(hs, idx, ch, g) == [hs EXCEPT ![idx + 1] = RatAdd(@, RatAdd(ch, RatOf(g)))]

\* one call of the forEach callback
forEachStep ==
    /\ pc = "pack"
    /\ i <= Len(images)
    /\ LET image == images[i]
       IN  IF Skipped(image)
           THEN /\ i' = i + 1
                /\ UNCHANGED <<columns, columnHeights, pc>>
           ELSE LET calculatedHeight == calculatedHeightOf(image, columnWidth)
                    shortestColumnIndex == shortestColumnIndexOf(columnHeights)
                IN  IF shortestColumnIndex = -1
                    THEN \* columns[-1] is undefined: TypeError
                         /\ pc' = "error"
                         /\ UNCHANGED <<columns, columnHeights, i>>
                    ELSE /\ columns' = PushImage(columns, shortestColumnIndex, image,
                                                 calculatedHeight)
                         /\ columnHeights' = AddHeight(columnHeights, shortestColumnIndex,
                                                       calculatedHeight, gap)
                         /\ i' = i + 1
                         /\ pc' = pc
    /\ UNCHANGED <<images, containerWidth, gap, columnCount, columnWidth, memoDeps>>
    /\ UNCHANGED urlVars
    /\ UNCHANGED <<backendVars, homeVars, gateVars>>

\* return { columns, columnCount, columnWidth }
returnLayout ==
    /\ pc = "pack"
    /\ i > Len(images)
    /\ pc' = "done"
    /\ UNCHANGED <<images, containerWidth, gap, columns, columnHeights, columnCount,
                   columnWidth, i, memoDeps>>
    /\ UNCHANGED urlVars
    /\ UNCHANGED <<backendVars, homeVars, gateVars>>

\* images.forEach from position k on, as one computation
RECURSIVE PackFrom(_, _, _, _, _, _)
PackFrom(imgs, k, cols, hs, cwidth, g) ==
    IF k > Len(imgs) THEN cols
    ELSE IF Skipped(imgs[k]) THEN PackFrom(imgs, k + 1, cols, hs, cwidth, g)
    ELSE LET calculatedHeight == calculatedHeightOf(imgs[k], cwidth)
             shortestColumnIndex == shortestColumnIndexOf(hs)
         IN  PackFrom(imgs, k + 1,
                      PushImage(cols, shortestColumnIndex, imgs[k], calculatedHeight),
                      AddHeight(hs, shortestColumnIndex, calculatedHeight, g),
                      cwidth, g)

\* the object the memo body returns when it runs on (images, containerWidth, gap)
useMasonryColumns(imgs, cw, g) ==
    LET m == MemoStart(imgs, cw, g)
    IN  [columns |-> IF m.pc = "done" THEN m.columns
                     ELSE PackFrom(imgs, 1, m.columns, m.columnHeights, m.columnWidth, g),
         columnCount |-> m.columnCount,
         columnWidth |-> m.columnWidth]

----------------------------------------------------------------------------
(* The host component *)

\* updateWidth: setContainerWidth(node.offsetWidth); an unchanged width
\* causes no render, a changed one re-renders and recomputes the memo
updateWidth(newWidth) ==
    /\ pc = "done"
    /\ newWidth # containerWidth
    /\ Render(images, newWidth, FALSE)
    /\ UNCHANGED urlVars
    /\ UNCHANGED <<backendVars, homeVars, gateVars>>

\* the host is rendered with a longer image array (a further page of
\* results appended): the memo is recomputed
imagesAppended(d) ==
    /\ pc = "done"
    /\ Len(images) < MaxItems
    /\ Render(Append(images, [id |-> Len(images) + 1, width |-> d[1], height |-> d[2]]),
              containerWidth, TRUE)
    /\ UNCHANGED urlVars
    /\ UNCHANGED <<backendVars, homeVars, gateVars>>

\* the host is rendered with another image array (a new search): the memo
\* is recomputed
imagesReplaced(imgs) ==
    /\ pc = "done"
    /\ Render(imgs, containerWidth, TRUE)
    /\ UNCHANGED urlVars
    /\ UNCHANGED <<backendVars, homeVars, gateVars>>

\* setHoveredImage: the host renders again with the same array and the same
\* width; the hook returns the kept layout
hoverRerender ==
    /\ pc = "done"
    /\ Len(images) > 0
    /\ Render(images, containerWidth, FALSE)
    /\ UNCHANGED urlVars
    /\ UNCHANGED <<backendVars, homeVars, gateVars>>

Next ==
    \/ forEachStep
    \/ returnLayout
    \/ hoverRerender
    \/ \E w \in Widths : updateWidth(w)
    \/ \E d \in Dims : imagesAppended(d)
    \/ \E imgs \in ReplacementLists : imagesReplaced(imgs)

Spec == Init /\ [][Next]_vars

----------------------------------------------------------------------------
(* Image URLs: getImageUrl, convertToImageKitUrl and the copy handlers *)

\* A URL string is <<base, filename>>: the text up to and including its last
\* '/', and the text after it.  '' is <<"", "">>; an absent s3_url is <<>>.
EmptyUrl == <<"", "">>

LicensedBase == "https://licensed-adobe-assets.s3.amazonaws.com/adobe-stock-images/"

LicensedSubBase == "https://licensed-adobe-assets.s3.amazonaws.com/adobe-stock-images/2024/"

OtherS3Base == "https://other-bucket.s3.amazonaws.com/"

CompBase == "https://as1.ftcdn.net/v2/jpg/"

ThumbBase == "https://t3.ftcdn.net/jpg/"

ImageKitBase == "https://ik.imagekit.io/9ry3lupe5/licensed-adobe-assets/"

S3Urls == { <<>>, EmptyUrl, <<LicensedBase, "photo.jpg">>, <<LicensedSubBase, "photo.jpg">>,
            <<LicensedBase, "">>, <<OtherS3Base, "photo.jpg">> }

CompUrls == { EmptyUrl, <<CompBase, "comp.jpg">> }

ThumbUrls == { EmptyUrl, <<ThumbBase, "thumb.jpg">> }

Cards == [s3_url : S3Urls, comp_url : CompUrls, thumbnail_url : ThumbUrls]

\* a string | undefined in a boolean position
TruthyUrl(u) == u # <<>> /\ u # EmptyUrl

\* a || b
OrElse(a, b) == IF TruthyUrl(a) THEN a ELSE b

\* getImageUrl with comp_url ahead of s3_url
M_getImageUrl_compFirst(image) ==
    OrElse(OrElse(image.comp_url, image.s3_url), image.thumbnail_url)

\* ImageGrid: image.s3_url || image.comp_url || image.thumbnail_url
getImageUrl(image) == OrElse(OrElse(image.s3_url, image.comp_url), image.thumbnail_url)

\* ImageModal: image.s3_url || image.comp_url || image.thumbnail_url
modalGetImageUrl(image) == OrElse(OrElse(image.s3_url, image.comp_url), image.thumbnail_url)

\* url.includes('licensed-adobe-assets.s3.amazonaws.com/adobe-stock-images/')
IncludesLicensed(url) == url[1] \in {LicensedBase, LicensedSubBase}

\* convertToImageKitUrl: an S3 URL of the licensed bucket with a file name
\* becomes the ImageKit URL of that file name, anything else is returned as is
convertToImageKitUrl(url) ==
    IF TruthyUrl(url) /\ IncludesLicensed(url)
    THEN LET filename == url[2]
         IN  IF filename # "" THEN <<ImageKitBase, filename>> ELSE url
    ELSE url

\* filteredImages keeps an image only if it has some URL
Filtered(image) ==
    TruthyUrl(OrElse(OrElse(image.s3_url, image.comp_url), image.thumbnail_url))

\* the grid renders the card of an image of the returned layout:
\* <Image src={getImageUrl(image)} .../>
showCard(c) ==
    /\ pc = "done"
    /\ \E k \in 1..Len(columns) : columns[k].images # <<>>
    /\ Filtered(c)
    /\ card' = <<c>>
    /\ src' = getImageUrl(c)
    /\ UNCHANGED <<images, containerWidth, gap, columns, columnHeights, columnCount,
                   columnWidth, i, pc, memoDeps, copied>>
    /\ UNCHANGED <<backendVars, homeVars, gateVars>>

\* onClick of the card and of the hover button:
\* onCopyUrl(convertToImageKitUrl(getImageUrl(image)), 'ImageKit URL')
clickCard ==
    /\ pc = "done"
    /\ card # <<>>
    /\ copied' = <<convertToImageKitUrl(getImageUrl(card[1])), "ImageKit URL">>
    /\ UNCHANGED <<images, containerWidth, gap, columns, columnHeights, columnCount,
                   columnWidth, i, pc, memoDeps, card, src>>
    /\ UNCHANGED <<backendVars, homeVars, gateVars>>

\* the hover button shown when image.s3_url: onCopyUrl(image.s3_url!, 'S3 URL')
copyS3Url ==
    /\ pc = "done"
    /\ card # <<>>
    /\ TruthyUrl(card[1].s3_url)
    /\ copied' = <<card[1].s3_url, "S3 URL">>
    /\ UNCHANGED <<images, containerWidth, gap, columns, columnHeights, columnCount,
                   columnWidth, i, pc, memoDeps, card, src>>
    /\ UNCHANGED <<backendVars, homeVars, gateVars>>

\* the modal's button: onCopyUrl(getImageUrl(image), 'Best Image URL')
copyBestUrl ==
    /\ pc = "done"
    /\ card # <<>>
    /\ copied' = <<modalGetImageUrl(card[1]), "Best Image URL">>
    /\ UNCHANGED <<images, containerWidth, gap, columns, columnHeights, columnCount,
                   columnWidth, i, pc, memoDeps, card, src>>
    /\ UNCHANGED <<backendVars, homeVars, gateVars>>

\* a host mounted with one image
InitUrl == Init /\ images = MkImages(<< <<Num(400), Num(300)>> >>)

NextUrl ==
    \/ forEachStep
    \/ returnLayout
    \/ \E c \in Cards : showCard(c)
    \/ clickCard
    \/ copyS3Url
    \/ copyBestUrl

SpecUrl == InitUrl /\ [][NextUrl]_vars

----------------------------------------------------------------------------
(* Backend failover: makeBackendRequest, tryBackendRequest, tryBackendHealthCheck *)

\* getBackendUrls of config/backend.ts, production and development
ProductionUrls ==
    <<"https://automation-tools.wjj7y49t8p9c2.us-west-2.cs.amazonlightsail.com",
      "http://127.0.0.1:8000", "http://localhost:8000">>

DevelopmentUrls == <<"http://127.0.0.1:8000", "http://localhost:8000">>

\* the BACKEND_URLS the first search route declares itself
RouteUrls == <<"https://127.0.0.1:8000", "http://127.0.0.1:8000">>

Loops == {"makeBackendRequest", "tryBackendRequest", "tryBackendHealthCheck"}

\* the lists a loop can go through; makeBackendRequest takes its list from
\* the caller
UrlListsOf(kind) ==
    CASE kind = "makeBackendRequest" -> {<<>>, DevelopmentUrls, ProductionUrls}
      [] kind = "tryBackendRequest" -> {RouteUrls, DevelopmentUrls, ProductionUrls}
      [] kind = "tryBackendHealthCheck" -> {DevelopmentUrls, ProductionUrls}

\* what a backend answers: an HTTP status, or nothing (connection refused,
\* timeout: fetch / axios throw)
Replies == {"200", "401", "403", "404", "500", "network"}

\* the marker phrases an error body can carry into the error message
Bodies == {{}, {"Authentication failed"}}

\* response.ok, and the statuses axios resolves
Ok(reply) == reply = "200"

\* the Error the try block ends with on a failed attempt; a message is the
\* set of the phrases it includes among those the routes look for
ErrorOf(kind, url, reply, body) ==
    [url |-> url, reply |-> reply,
     message |->
        IF reply = "network" THEN {}
        ELSE IF kind = "tryBackendHealthCheck"
        THEN IF reply \in {"401", "403"}
             THEN {"Authentication failed", "Invalid or expired API key"}
             ELSE IF reply = "500" THEN {"Backend server error"}
             ELSE {"Backend health check failed"} \cup body
        ELSE IF kind = "tryBackendRequest" THEN {"Backend request failed"} \cup body
        ELSE {}]

\* new Error('All backend URLs failed') / new Error('All backend health checks failed')
NoUrlError(kind) ==
    [url |-> "", reply |-> "",
     message |-> IF kind = "tryBackendHealthCheck"
                 THEN {"All backend health checks failed"}
                 ELSE {"All backend URLs failed"}]

\* the first error kept
M_KeepError_first(last, err) == IF last = <<>> THEN <<err>> ELSE last

\* lastError = error instanceof Error ? error : new Error(String(error))
KeepError(last, err) == <<err>>

\* response.data / await response.json()
DataOf(url) == [from |-> url]

\* a route handler or a caller enters the loop: let lastError = null
startLoop(kind, urls) ==
    /\ loop = "none"
    /\ loop' = kind
    /\ backendUrls' = urls
    /\ urlIdx' = 1
    /\ contacted' = <<>>
    /\ lastError' = <<>>
    /\ outcome' = <<>>
    /\ response' = <<>>
    /\ UNCHANGED <<images, containerWidth, gap, columns, columnHeights, columnCount,
                   columnWidth, i, pc, memoDeps, urlVars, homeVars, gateVars>>

\* one pass of `for (const baseUrl of ...)`: the request is sent; a good
\* answer returns its data, anything else is caught and kept in lastError
contact(reply, body) ==
    /\ loop # "none"
    /\ outcome = <<>>
    /\ urlIdx <= Len(backendUrls)
    /\ LET baseUrl == backendUrls[urlIdx]
       IN  /\ contacted' = Append(contacted, [url |-> baseUrl, reply |-> reply])
           /\ IF Ok(reply)
              THEN /\ outcome' = <<"return", DataOf(baseUrl)>>
                   /\ UNCHANGED <<lastError, urlIdx>>
              ELSE /\ lastError' = KeepError(lastError, ErrorOf(loop, baseUrl, reply, body))
                   /\ urlIdx' = urlIdx + 1
                   /\ UNCHANGED outcome
    /\ UNCHANGED <<loop, backendUrls, response>>
    /\ UNCHANGED <<images, containerWidth, gap, columns, columnHeights, columnCount,
                   columnWidth, i, pc, memoDeps, urlVars, homeVars, gateVars>>

\* after the loop: throw lastError || new Error(...)
loopThrow ==
    /\ loop # "none"
    /\ outcome = <<>>
    /\ urlIdx > Len(backendUrls)
    /\ outcome' = <<"throw", IF lastError # <<>> THEN lastError[1] ELSE NoUrlError(loop)>>
    /\ UNCHANGED <<loop, backendUrls, urlIdx, contacted, lastError, response>>
    /\ UNCHANGED <<images, containerWidth, gap, columns, columnHeights, columnCount,
                   columnWidth, i, pc, memoDeps, urlVars, homeVars, gateVars>>

\* the status the health route picks from the error message
HealthStatusCode(message) ==
    IF "Authentication failed" \in message \/ "Invalid or expired API key" \in message
    THEN 401
    ELSE IF "Backend server error" \in message THEN 502
    ELSE IF "All backend health checks failed" \in message THEN 503
    ELSE 500

\* GET of the health route and of the search routes: NextResponse.json(data)
\* or the error response built in the catch
routeRespond ==
    /\ loop \in {"tryBackendRequest", "tryBackendHealthCheck"}
    /\ outcome # <<>>
    /\ response = <<>>
    /\ response' =
         IF outcome[1] = "return"
         THEN <<[status |-> 200, authenticated |-> "absent"]>>
         ELSE IF loop = "tryBackendHealthCheck"
         THEN LET statusCode == HealthStatusCode(outcome[2].message)
              IN  <<[status |-> statusCode,
                     authenticated |-> IF statusCode # 401 THEN "true" ELSE "false"]>>
         ELSE <<[status |-> 500, authenticated |-> "absent"]>>
    /\ UNCHANGED <<loop, backendUrls, urlIdx, contacted, lastError, outcome>>
    /\ UNCHANGED <<images, containerWidth, gap, columns, columnHeights, columnCount,
                   columnWidth, i, pc, memoDeps, urlVars, homeVars, gateVars>>

\* the servers before a request, next to a host without images
InitBackendSpec == Init /\ images = <<>>

NextBackend ==
    \/ \E kind \in Loops : \E urls \in UrlListsOf(kind) : startLoop(kind, urls)
    \/ \E reply \in Replies : \E body \in Bodies : contact(reply, body)
    \/ loopThrow
    \/ routeRespond

SpecBackend == InitBackendSpec /\ [][NextBackend]_vars

----------------------------------------------------------------------------
(* Home: searchImages, handleSearch, handleScroll *)

\* the filters a search is submitted with: {} (also what Clear submits) and
\* one more
Filters == {"{}", "cats"}

\* data.search_results of a response, as image ids
Pages == {<<>>, <<1, 2>>, <<2, 3>>}

\* what the search route answers: the images of the page and has_more
Responses == [search_results : Pages, has_more : BOOLEAN]

\* the images of a response to a request made with the given filters
Fetched(ids, filters) == [k \in 1..Len(ids) |-> [id |-> ids[k], filters |-> filters]]

\* the fetched page appended whole
M_AppendResults_noFilter(prev, results) == prev \o results

\* the updater of setImages when append is set:
\* existingIds = new Set(prev.map(img => img.id));
\* [...prev, ...data.search_results.filter(img => !existingIds.has(img.id))]
AppendResults(prev, results) ==
    LET existingIds == { prev[k].id : k \in 1..Len(prev) }
        NotShown(img) == img.id \notin existingIds
    IN  prev \o SelectSeq(results, NotShown)

\* searchImages up to its await: the loading flag of the page, setError(null),
\* and the request on its way
searchImages(filters, page, append) ==
    LET r == [filters |-> filters, page |-> page, append |-> append]
    IN  /\ r \notin requests
        /\ Cardinality(requests) < MaxInFlight
        /\ requests' = requests \cup {r}
        /\ loading' = IF page = 1 THEN TRUE ELSE loading
        /\ loadingMore' = IF page = 1 THEN loadingMore ELSE TRUE
        /\ homeError' = "null"

\* handleSearch, from Clear (always enabled, submits {}) or from the submit
\* button (disabled while loading)
handleSearch(filters) ==
    /\ filters = "{}" \/ ~loading
    /\ searchFilters' = filters
    /\ searchImages(filters, 1, FALSE)
    /\ UNCHANGED <<homeImages, pagination>>
    /\ UNCHANGED <<images, containerWidth, gap, columns, columnHeights, columnCount,
                   columnWidth, i, pc, memoDeps, urlVars, backendVars, gateVars>>

\* handleScroll near the bottom of the page
handleScroll ==
    /\ ~(loadingMore \/ ~pagination.has_more \/ loading)
    /\ pagination.current_page < MaxPage
    /\ searchImages(searchFilters, pagination.current_page + 1, TRUE)
    /\ UNCHANGED <<homeImages, pagination, searchFilters>>
    /\ UNCHANGED <<images, containerWidth, gap, columns, columnHeights, columnCount,
                   columnWidth, i, pc, memoDeps, urlVars, backendVars, gateVars>>

\* searchImages after its await, the response having arrived: setImages,
\* setPagination, and the finally block
searchResolved(r, data) ==
    /\ r \in requests
    /\ requests' = requests \ {r}
    /\ homeImages' = IF r.append
                     THEN AppendResults(homeImages, Fetched(data.search_results, r.filters))
                     ELSE Fetched(data.search_results, r.filters)
    /\ pagination' = [current_page |-> r.page, has_more |-> data.has_more]
    /\ loading' = FALSE
    /\ loadingMore' = FALSE
    /\ UNCHANGED <<homeError, searchFilters>>
    /\ UNCHANGED <<images, containerWidth, gap, columns, columnHeights, columnCount,
                   columnWidth, i, pc, memoDeps, urlVars, backendVars, gateVars>>

\* searchImages after its await, the request having failed: the catch and
\* the finally block
searchRejected(r) ==
    /\ r \in requests
    /\ requests' = requests \ {r}
    /\ homeError' = "set"
    /\ loading' = FALSE
    /\ loadingMore' = FALSE
    /\ UNCHANGED <<homeImages, pagination, searchFilters>>
    /\ UNCHANGED <<images, containerWidth, gap, columns, columnHeights, columnCount,
                   columnWidth, i, pc, memoDeps, urlVars, backendVars, gateVars>>

\* Home after its mount effect, next to a host without images
InitSearch == Init /\ images = <<>>

NextSearch ==
    \/ \E filters \in Filters : handleSearch(filters)
    \/ handleScroll
    \/ \E r \in requests : \E data \in Responses : searchResolved(r, data)
    \/ \E r \in requests : searchRejected(r)

SpecSearch == InitSearch /\ [][NextSearch]_vars

----------------------------------------------------------------------------
(* TokenGate *)

\* what the user can type as a token
Tokens == {"alpha", "beta"}

\* what an item of localStorage can hold at mount: nothing, '' or a token
SavedTokens == {<<>>, <<"">>} \cup { <<t>> : t \in Tokens }

\* localStorage.getItem('INTERNAL_API_TOKEN') || localStorage.getItem('internalApiToken')
SavedToken(local, legacy) == IF local # <<>> /\ local # <<"">> THEN local ELSE legacy

\* what GET /api/health gives the client: a status of the health route, or
\* no response at all
HealthReplies == {"200", "401", "500", "502", "503", "network"}

\* setInMemoryInternalApiKey: token && token.length > 0 ? token : null
setInMemoryInternalApiKey(t) == IF t # "" THEN <<t>> ELSE <<>>

\* axios resolves a 2xx response and rejects anything else
Resolves(reply) == reply = "200"

\* the message verify's catch shows for a rejected request
VerifyErrorOf(reply) ==
    IF reply = "network" THEN "Unable to verify token - check your connection"
    ELSE IF reply \in {"401", "403"} THEN "Invalid or expired token"
    ELSE IF reply \in {"500", "502", "503"} THEN "Server error - please try again"
    ELSE "Authentication failed"

\* the children shown whenever initialization is over and nothing is checked
M_Rendered_noVerified == initialized /\ ~checking

\* if (verified && initialized && !checking) return <>{children}</>
Rendered == verified /\ initialized /\ ~checking

\* the form with the token input is on screen
FormShown == initialized /\ ~Rendered

\* the mount effect: no saved token ends initialization; a saved token is
\* put in state and in memory and its health check is sent
mountEffect ==
    /\ ~mounted
    /\ mounted' = TRUE
    /\ LET saved == SavedToken(localToken, legacyToken)
       IN  IF saved = <<>> \/ saved = <<"">>
           THEN /\ initialized' = TRUE
                /\ UNCHANGED <<token, verified, gateError, checking, inMemoryInternalApiKey,
                               health>>
           ELSE /\ token' = saved[1]
                /\ inMemoryInternalApiKey' = setInMemoryInternalApiKey(saved[1])
                /\ checking' = TRUE
                /\ gateError' = <<>>
                /\ health' = <<[key |-> setInMemoryInternalApiKey(saved[1]), by |-> "mount"]>>
                /\ UNCHANGED <<verified, initialized>>
    /\ UNCHANGED <<localToken, legacyToken, lastHealth>>
    /\ UNCHANGED <<images, containerWidth, gap, columns, columnHeights, columnCount,
                   columnWidth, i, pc, memoDeps, urlVars, backendVars, homeVars>>

\* the mount effect after its await: try, catch and finally
mountChecked(reply) ==
    /\ health # <<>>
    /\ health[1].by = "mount"
    /\ health' = <<>>
    /\ lastHealth' = <<[key |-> health[1].key, ok |-> Resolves(reply)]>>
    /\ IF Resolves(reply)
       THEN /\ verified' = TRUE
            /\ UNCHANGED <<inMemoryInternalApiKey, localToken, legacyToken, token>>
       ELSE /\ inMemoryInternalApiKey' = setInMemoryInternalApiKey("")
            /\ localToken' = <<>>
            /\ legacyToken' = <<>>
            /\ verified' = FALSE
            /\ token' = ""
    /\ checking' = FALSE
    /\ initialized' = TRUE
    /\ UNCHANGED <<gateError, mounted>>
    /\ UNCHANGED <<images, containerWidth, gap, columns, columnHeights, columnCount,
                   columnWidth, i, pc, memoDeps, urlVars, backendVars, homeVars>>

\* onChange of the input (disabled while checking)
typeToken(t) ==
    /\ FormShown
    /\ ~checking
    /\ token' = t
    /\ gateError' = <<>>
    /\ UNCHANGED <<verified, checking, initialized, inMemoryInternalApiKey, localToken,
                   legacyToken, health, lastHealth, mounted>>
    /\ UNCHANGED <<images, containerWidth, gap, columns, columnHeights, columnCount,
                   columnWidth, i, pc, memoDeps, urlVars, backendVars, homeVars>>

\* verify up to its await, from the button or the Enter key (both need a
\* token and no check in progress)
verify ==
    /\ FormShown
    /\ ~(token = "" \/ checking)
    /\ checking' = TRUE
    /\ gateError' = <<>>
    /\ verified' = FALSE
    /\ inMemoryInternalApiKey' = setInMemoryInternalApiKey(token)
    /\ health' = <<[key |-> setInMemoryInternalApiKey(token), by |-> "verify"]>>
    /\ UNCHANGED <<token, initialized, localToken, legacyToken, lastHealth, mounted>>
    /\ UNCHANGED <<images, containerWidth, gap, columns, columnHeights, columnCount,
                   columnWidth, i, pc, memoDeps, urlVars, backendVars, homeVars>>

\* verify after its await: a 200 response verifies and saves the token;
\* anything else clears the key in memory and sets the error
verifyChecked(reply) ==
    /\ health # <<>>
    /\ health[1].by = "verify"
    /\ health' = <<>>
    /\ lastHealth' = <<[key |-> health[1].key, ok |-> Resolves(reply)]>>
    /\ IF Resolves(reply) /\ reply = "200"
       THEN /\ verified' = TRUE
            /\ localToken' = <<token>>
            /\ UNCHANGED <<inMemoryInternalApiKey, gateError>>
       ELSE /\ inMemoryInternalApiKey' = setInMemoryInternalApiKey("")
            /\ verified' = FALSE
            /\ gateError' = <<VerifyErrorOf(reply)>>
            /\ UNCHANGED localToken
    /\ checking' = FALSE
    /\ UNCHANGED <<token, initialized, legacyToken, mounted>>
    /\ UNCHANGED <<images, containerWidth, gap, columns, columnHeights, columnCount,
                   columnWidth, i, pc, memoDeps, urlVars, backendVars, homeVars>>

\* TokenGate after its first render, for every content of localStorage
InitGateSpec ==
    /\ InitGrid
    /\ images = <<>>
    /\ InitBackend
    /\ InitHome
    /\ \E saved \in SavedTokens : \E legacy \in SavedTokens : InitGate(saved, legacy)

NextGate ==
    \/ mountEffect
    \/ \E reply \in HealthReplies : mountChecked(reply)
    \/ \E t \in Tokens \cup {""} : typeToken(t)
    \/ verify
    \/ \E reply \in HealthReplies : verifyChecked(reply)

SpecGate == InitGateSpec /\ [][NextGate]_vars

----------------------------------------------------------------------------
(* Vocabulary of the properties *)

\* the places <<column, position>> (1-based) that hold a placed image
PlacedAt == UNION { { <<c, p>> : p \in 1..Len(columns[c].images) } : c \in 1..Len(columns) }

PlacedTotal == Cardinality(PlacedAt)

\* an image whose width or height is missing, zero or negative
InvalidImage(image) ==
    \/ image.width = Null
    \/ image.height = Null
    \/ image.width[1] <= 0
    \/ image.height[1] <= 0

\* the places that hold the image with the given id
PlacesOf(id) == { pl \in PlacedAt : columns[pl[1]].images[pl[2]].id = id }

\* the packer ran (the memo body did not return early)
PackerRan == i > 0

\* the breakpoint tables as the specification states them
ColumnTable(w) ==
    CASE w < 640 -> 2
      [] w >= 640 /\ w < 1024 -> 3
      [] w >= 1024 /\ w < 1440 -> 4
      [] w >= 1440 -> 5

GapTable(w) ==
    CASE w < 640 -> 8
      [] w >= 640 /\ w < 1024 -> 12
      [] w >= 1024 -> 16

----------------------------------------------------------------------------
(* Properties *)

\* C1 - Shortest-column rule: whenever a forEach step places an image, the
\* column that receives it had, before the step, a running height <= that of
\* every other column, and no column of lower index had that same height.
C1_ShortestColumn ==
    [][ \A c \in 1..Len(columns) :
          ( /\ pc = "pack"
            /\ Len(columns') = Len(columns)
            /\ Len(columns'[c].images) > Len(columns[c].images) )
          => /\ \A k \in 1..Len(columnHeights) : RatLeq(columnHeights[c], columnHeights[k])
             /\ \A j \in 1..(c - 1) : columnHeights[j] # columnHeights[c] ]_vars

\* C1 witness: with two columns, the third image went to column 1 because
\* column 1 was strictly shorter than column 0
C1_Witness ==
    /\ columnCount = 2
    /\ Len(columns[1].images) = 1
    /\ Len(columns[2].images) = 2
    /\ RatLt(columnHeights[1], columnHeights[2])

\* C2 - Conservation: once the packer has returned, the number of placed
\* images plus the number of invalid (skipped) input images equals the number
\* of input images; during packing the same holds of the images processed so far.
C2_Conservation ==
    (PackerRan /\ pc \in {"pack", "done"}) =>
        PlacedTotal + Cardinality({ k \in 1..(i - 1) : InvalidImage(images[k]) }) = i - 1

\* C2 witness: a finished layout that both placed and skipped images
C2_Witness ==
    /\ pc = "done"
    /\ PackerRan
    /\ i = Len(images) + 1
    /\ PlacedTotal = 2
    /\ Len(images) = 3

\* C3 - Every input image with present, strictly positive width and height is
\* in exactly one place of the finished layout when containerWidth > 0.
C3_ValidPlacedOnce ==
    (pc = "done" /\ containerWidth > 0) =>
        \A k \in 1..Len(images) :
            ~InvalidImage(images[k]) => Cardinality(PlacesOf(images[k].id)) = 1

\* C3 witness: a finished layout of three valid images over two columns
C3_Witness ==
    /\ pc = "done"
    /\ containerWidth > 0
    /\ columnCount = 2
    /\ Len(images) = 3
    /\ \A k \in 1..Len(images) : ~InvalidImage(images[k])
    /\ PlacedTotal = 3

\* C4 - Dropped-item exclusion: an image whose width or height is null, zero
\* or negative is in no column, at any point of the packing, and the packing
\* never throws.
C4_InvalidNeverPlaced ==
    /\ pc # "error"
    /\ \A k \in 1..Len(images) : InvalidImage(images[k]) => PlacesOf(images[k].id) = {}
    /\ \A pl \in PlacedAt : ~InvalidImage(columns[pl[1]].images[pl[2]])

\* C4 witness: a finished layout whose input had a null width, a zero height
\* and a negative width, next to nothing else
C4_Witness ==
    /\ pc = "done"
    /\ PackerRan
    /\ Len(images) = 3
    /\ images[1].width = Null
    /\ images[2].height = Num(0)
    /\ images[3].width = Num(-400)
    /\ PlacedTotal = 0

\* C5 - Aspect-ratio preservation: for every placed image,
\* calculatedHeight * width = columnWidth * height, with the one columnWidth
\* of the layout.
C5_AspectRatio ==
    \A pl \in PlacedAt :
        LET it == columns[pl[1]].images[pl[2]]
        IN  RatMul(it.calculatedHeight, RatOf(it.width[1]))
              = RatMul(columnWidth, RatOf(it.height[1]))

\* C5 witness: a placed 400x300 image at column width 288 has height 216
C5_Witness ==
    /\ columnWidth = RatOf(288)
    /\ \E pl \in PlacedAt :
         LET it == columns[pl[1]].images[pl[2]]
         IN  it.width = Num(400) /\ it.height = Num(300) /\ it.calculatedHeight = RatOf(216)

C7_Monotonic ==
    \A w \in Widths :
        /\ w < containerWidth => getColumnCount(w) <= getColumnCount(containerWidth)
        /\ containerWidth < w => getColumnCount(containerWidth) <= getColumnCount(w)

\* C7 witness: the layout at width 1024 has 4 columns, between the 3 of 1023
\* and the 5 of 1440
C7_Witness ==
    /\ containerWidth = 1024
    /\ columnCount = 4
    /\ getColumnCount(1023) = 3
    /\ getColumnCount(1440) = 5

\* C8 - Gap table: the gap is 8, 12, 16 for widths below 640, below 1024 and
\* from 1024 on, and the host passes the gap of the current width.
C8_GapTable ==
    /\ \A w \in Widths \cup {containerWidth} : getResponsiveGap(w) = GapTable(w)
    /\ gap = GapTable(containerWidth)

\* C8 witness: the host rendered at width 1024 with gap 16
C8_Witness ==
    /\ containerWidth = 1024
    /\ gap = 16
    /\ pc = "done"
    /\ PackerRan

\* C9 - Degenerate input: with containerWidth <= 0 or no images the layout is
\* {columns: [], columnCount: 0, columnWidth: 0} and the forEach never starts.
C9_Degenerate ==
    (containerWidth <= 0 \/ Len(images) = 0) =>
        /\ pc = "done"
        /\ columns = <<>>
        /\ columnCount = 0
        /\ columnWidth = Zero
        /\ ~PackerRan

\* C9 witness: width 0 with a valid image in the list
C9_Witness ==
    /\ containerWidth = 0
    /\ Len(images) > 0
    /\ ~InvalidImage(images[1])
    /\ pc = "done"

\* C10 - With containerWidth > 0 and a non-empty list, gap and columnCount are
\* the table values of containerWidth, columnWidth * columnCount =
\* containerWidth - (columnCount - 1) * gap, and there are columnCount columns.
C10_Parameters ==
    (containerWidth > 0 /\ Len(images) > 0) =>
        /\ gap = GapTable(containerWidth)
        /\ columnCount = ColumnTable(containerWidth)
        /\ RatMul(columnWidth, RatOf(columnCount))
             = RatOf(containerWidth - (columnCount - 1) * gap)
        /\ Len(columns) = columnCount

\* C10 witness: width 1023 gives 3 columns, gap 12 and column width 333
C10_Witness ==
    /\ containerWidth = 1023
    /\ Len(images) > 0
    /\ pc = "done"
    /\ columnCount = 3
    /\ gap = 12
    /\ columnWidth = RatOf(333)
    /\ Len(columns) = 3

\* the ids held by a column, in column order
IdsOf(col) == [p \in 1..Len(col.images) |-> col.images[p].id]

\* s is a prefix of t
IsPrefix(s, t) == Len(s) <= Len(t) /\ SubSeq(t, 1, Len(s)) = s

\* the layout as the hook hands it to the host
Returned == [columns |-> columns, columnCount |-> columnCount, columnWidth |-> columnWidth]

\* the ids of the valid images of a list, in list order
RECURSIVE ValidIds(_)
ValidIds(imgs) ==
    IF imgs = <<>> THEN <<>>
    ELSE LET rest == ValidIds(SubSeq(imgs, 1, Len(imgs) - 1))
             last == imgs[Len(imgs)]
         IN  IF InvalidImage(last) THEN rest ELSE Append(rest, last.id)

\* C12 - History independence: whatever renders came before, the layout the
\* hook returns is the one a fresh run of the memo body gives on the current
\* images, containerWidth and gap, and the dependencies kept by the memo are
\* the current ones.
C12_HistoryIndependent ==
    /\ memoDeps = <<images, containerWidth, gap>>
    /\ pc = "done" => Returned = useMasonryColumns(images, containerWidth, gap)

\* C12 witness: a layout returned after the width left its initial value and
\* the list was packed over two columns
C12_Witness ==
    /\ pc = "done"
    /\ containerWidth = 639
    /\ Len(images) = 3
    /\ PlacedTotal = 3
    /\ Len(columns[1].images) = 2

\* C13 - No error: the memo body never throws; while it runs, the column it
\* would push to exists and each step either moves the forEach one image on
\* or returns after the last image, so the run ends after Len(images)
\* callbacks; what it returns is a layout of finite numbers with one entry
\* per column.
C13_NoError ==
    /\ [](pc \in {"pack", "done"})
    /\ [](pc = "done" => /\ Len(columns) = columnCount
                         /\ columnWidth[2] > 0
                         /\ \A pl \in PlacedAt :
                              columns[pl[1]].images[pl[2]].calculatedHeight[2] > 0)
    /\ [](pc = "pack" => /\ i \in 1..(Len(images) + 1)
                         /\ Len(columns) = columnCount
                         /\ Len(columnHeights) = columnCount
                         /\ shortestColumnIndexOf(columnHeights) \in 0..(columnCount - 1))
    /\ [][ pc = "pack" => \/ pc' = "pack" /\ i' = i + 1
                          \/ pc' = "done" /\ i = Len(images) + 1 ]_vars

\* C13 witness: a returned layout whose input mixed a null width, a zero
\* height and a valid image, at the narrowest positive width
C13_Witness ==
    /\ pc = "done"
    /\ containerWidth = 1
    /\ Len(images) = 3
    /\ images[1].width = Null
    /\ images[2].height = Num(0)
    /\ ~InvalidImage(images[3])
    /\ PlacedTotal = 1

\* C14 - Worked example: the five images at width 1200 give 4 columns, gap 16,
\* column width 288; images 1-4 open columns 0-3 with heights 216, 480, 192,
\* 432 and image 5 is second in column 2.
C14_WorkedExample ==
    ( /\ Len(images) >= 5
      /\ SubSeq(images, 1, 5) = WorkedItems
      /\ containerWidth = 1200
      /\ i > 5 ) =>
        /\ columnCount = 4
        /\ gap = 16
        /\ columnWidth = RatOf(288)
        /\ \A c \in 1..4 : columns[c].columnIndex = c - 1 /\ PlacesOf(c) = {<<c, 1>>}
        /\ columns[1].images[1].calculatedHeight = RatOf(216)
        /\ columns[2].images[1].calculatedHeight = RatOf(480)
        /\ columns[3].images[1].calculatedHeight = RatOf(192)
        /\ columns[4].images[1].calculatedHeight = RatOf(432)
        /\ PlacesOf(5) = {<<3, 2>>}

\* C14 witness: the returned layout of exactly the five images
C14_Witness ==
    /\ images = WorkedItems
    /\ containerWidth = 1200
    /\ pc = "done"
    /\ IdsOf(columns[3]) = <<3, 5>>

\* C15 - README: below 640 px the grid has a single column, and the grid
\* always has between 1 and 5 columns.
C15_MobileSingleColumn ==
    PackerRan =>
        /\ columnCount \in 1..5
        /\ containerWidth < 640 => columnCount = 1

\* C17 - Append-only input order: every column holds its images in input
\* order (ids are list positions, so ids increase along a column and each
\* placed image is the input image of that id), and a packing step leaves
\* what a column already holds as a prefix of what it holds afterwards.
C17_AppendOnly ==
    /\ [](\A c \in 1..Len(columns) :
            /\ \A p \in 1..Len(columns[c].images) :
                 LET it == columns[c].images[p]
                 IN  /\ it.id \in 1..Len(images)
                     /\ images[it.id].width = it.width
                     /\ images[it.id].height = it.height
            /\ \A p, q \in 1..Len(columns[c].images) :
                 p < q => columns[c].images[p].id < columns[c].images[q].id)
    /\ [][ (pc = "pack" /\ Len(columns') = Len(columns)) =>
             \A c \in 1..Len(columns) : IsPrefix(columns[c].images, columns'[c].images) ]_vars

\* C17 witness: three images over two columns, column 0 holding the first and
\* the third
C17_Witness ==
    /\ columnCount = 2
    /\ IdsOf(columns[1]) = <<1, 3>>
    /\ IdsOf(columns[2]) = <<2>>

\* C18 - Frame of a packing step: a step that places an image adds exactly
\* its calculatedHeight + gap to the running height of the one column that
\* receives it and leaves the other columns' heights and contents as they
\* were; a step that skips an invalid image changes no height and no column.
C18_StepFrame ==
    [][ (pc = "pack" /\ i' = i + 1) =>
          IF InvalidImage(images[i])
          THEN columns' = columns /\ columnHeights' = columnHeights
          ELSE \E c \in 1..Len(columns) :
                 /\ Len(columns'[c].images) = Len(columns[c].images) + 1
                 /\ LET it == columns'[c].images[Len(columns'[c].images)]
                    IN  /\ it.id = images[i].id
                        /\ columnHeights'[c]
                             = RatAdd(columnHeights[c], RatAdd(it.calculatedHeight, RatOf(gap)))
                 /\ \A k \in 1..Len(columns) :
                      k # c => /\ columns'[k] = columns[k]
                               /\ columnHeights'[k] = columnHeights[k] ]_vars

\* C18 witness: after a 400x300 image at column width 288 and gap 16, column 0
\* is 232 high, and a skipped image came after it
C18_Witness ==
    /\ pc = "pack"
    /\ i = 3
    /\ columnWidth = RatOf(288)
    /\ columnHeights[1] = RatOf(232)
    /\ columnHeights[2] = Zero
    /\ InvalidImage(images[2])

\* C19 - All images invalid: with a non-empty list of invalid images and
\* containerWidth > 0 the returned layout has the table's number of columns,
\* column k carries index k, and every column is empty.
C19_AllInvalid ==
    ( /\ pc = "done"
      /\ Len(images) > 0
      /\ containerWidth > 0
      /\ \A k \in 1..Len(images) : InvalidImage(images[k]) ) =>
        /\ columnCount = ColumnTable(containerWidth)
        /\ Len(columns) = columnCount
        /\ \A c \in 1..Len(columns) :
             columns[c].columnIndex = c - 1 /\ columns[c].images = <<>>

\* C19 witness: two invalid images at width 1440 leave five empty columns
C19_Witness ==
    /\ pc = "done"
    /\ containerWidth = 1440
    /\ Len(images) = 2
    /\ InvalidImage(images[1])
    /\ InvalidImage(images[2])
    /\ Len(columns) = 5

\* C20 - Single column: at the narrowest width the layout has one column and
\* it holds all valid images in input order.
C20_SingleColumn ==
    (pc = "done" /\ PackerRan /\ containerWidth = 1) =>
        /\ columnCount = 1
        /\ Len(columns) = 1
        /\ IdsOf(columns[1]) = ValidIds(images)

\* C21 - Last-write-wins on resize: the layout the host renders is the layout
\* of the current images at the width of the latest observation, with the
\* gap of that width; a step that delivers another width discards what was
\* computed for the earlier one and starts the memo body on the new width.
C21_LastWriteWins ==
    /\ [](pc = "done" =>
            Returned = useMasonryColumns(images, containerWidth,
                                         getResponsiveGap(containerWidth)))
    /\ [](PackerRan =>
            /\ columnCount = getColumnCount(containerWidth)
            /\ columnWidth = ColumnWidthOf(containerWidth, columnCount,
                                           getResponsiveGap(containerWidth)))
    /\ [][ containerWidth' # containerWidth =>
             LET m == MemoStart(images, containerWidth',
                                getResponsiveGap(containerWidth'))
             IN  /\ images' = images
                 /\ memoDeps' = <<images, containerWidth', getResponsiveGap(containerWidth')>>
                 /\ columns' = m.columns
                 /\ columnHeights' = m.columnHeights
                 /\ columnWidth' = m.columnWidth ]_vars

\* C21 witness: a layout returned at width 1024, which has the gap and the
\* column count of the initial width 1200 but another column width
C21_Witness ==
    /\ pc = "done"
    /\ containerWidth = 1024
    /\ gap = 16
    /\ columnCount = 4
    /\ columnWidth = RatOf(244)
    /\ PlacedTotal = 3

\* C22 - No default substitution in the hook: a placed image has the id,
\* width and height of its input image and, in addition, only
\* calculatedHeight; an image without width or height is in no column; the
\* packing leaves the input list as it is.
C22_NoSubstitution ==
    /\ [](\A pl \in PlacedAt :
            LET it == columns[pl[1]].images[pl[2]]
            IN  /\ DOMAIN it = {"id", "width", "height", "calculatedHeight"}
                /\ it.id \in 1..Len(images)
                /\ it.width = images[it.id].width
                /\ it.height = images[it.id].height
                /\ it.width # Null
                /\ it.height # Null)
    /\ [](\A k \in 1..Len(images) :
            (images[k].width = Null \/ images[k].height = Null) => PlacesOf(images[k].id) = {})
    /\ [][ pc = "pack" => images' = images ]_vars

\* C22 witness: a returned layout whose input had an image without width, an
\* image without height and a 100x300 image, which alone was placed
C22_Witness ==
    /\ pc = "done"
    /\ Len(images) = 3
    /\ images[1].width = Null
    /\ images[2].height = Null
    /\ PlacedTotal = 1
    /\ \E pl \in PlacedAt :
         LET it == columns[pl[1]].images[pl[2]]
         IN  it.id = 3 /\ it.width = Num(100) /\ it.height = Num(300)

\* C23 - Positive column width: with containerWidth > 0 and the gap of that
\* width, columnWidth > 0, every placed image has calculatedHeight > 0 and no
\* packing step lowers a column's running height.
C23_PositiveColumnWidth ==
    /\ []((containerWidth > 0 /\ PackerRan) =>
            /\ RatLt(Zero, columnWidth)
            /\ \A pl \in PlacedAt :
                 RatLt(Zero, columns[pl[1]].images[pl[2]].calculatedHeight))
    /\ [][ (pc = "pack" /\ pc' = "pack" /\ containerWidth > 0) =>
             \A c \in 1..Len(columnHeights) :
                 RatLeq(columnHeights[c], columnHeights'[c]) ]_vars

\* C24 - Balance bound: when columnWidth > 0, the running heights of any two
\* columns differ by at most calculatedHeight + gap of some placed image
\* (hence of the largest), and are all 0 while nothing is placed.
C24_BalanceBound ==
    (PackerRan /\ pc \in {"pack", "done"} /\ RatLt(Zero, columnWidth)) =>
        \A a, b \in 1..Len(columnHeights) :
            \/ PlacedAt = {} /\ columnHeights[a] = columnHeights[b]
            \/ \E pl \in PlacedAt :
                 RatLeq(RatSub(columnHeights[a], columnHeights[b]),
                        RatAdd(columns[pl[1]].images[pl[2]].calculatedHeight, RatOf(gap)))

\* C24 witness: three images over two columns at width 639, the columns
\* differing by less than the tallest image's height plus the gap
C24_Witness ==
    /\ pc = "done"
    /\ containerWidth = 639
    /\ PlacedTotal = 3
    /\ RatLt(Zero, columnWidth)
    /\ columnHeights[1] # columnHeights[2]
    /\ Len(columns[1].images) = 2

\* C25 - Opening fill: when columnWidth > 0, the k-th valid image processed
\* so far, for k up to the column count, is the first image of column k - 1,
\* and no column is empty while another holds two or more images.
C25_OpeningFill ==
    (PackerRan /\ pc \in {"pack", "done"} /\ RatLt(Zero, columnWidth)) =>
        LET vids == ValidIds(SubSeq(images, 1, i - 1))
        IN  /\ \A k \in 1..Len(columns) :
                 k <= Len(vids) => /\ Len(columns[k].images) >= 1
                                   /\ columns[k].images[1].id = vids[k]
            /\ \A a, b \in 1..Len(columns) :
                 columns[a].images = <<>> => Len(columns[b].images) <= 1

\* C25 witness: three valid images at width 1023 opened columns 0, 1 and 2
C25_Witness ==
    /\ pc = "done"
    /\ containerWidth = 1023
    /\ columnCount = 3
    /\ IdsOf(columns[1]) = <<1>>
    /\ IdsOf(columns[2]) = <<2>>
    /\ IdsOf(columns[3]) = <<3>>

C27_HealthAuthSignal ==
    ( /\ loop = "tryBackendHealthCheck"
      /\ response # <<>>
      /\ \A k \in 1..Len(contacted) : ~Ok(contacted[k].reply)
      /\ \E k \in 1..Len(contacted) : contacted[k].reply \in {"401", "403"} ) =>
        /\ response[1].status = 401
        /\ response[1].authenticated = "false"

\* C28 - Latest search only: when no request is outstanding and none is
\* reported as failed, every displayed image was fetched for the filters
\* submitted last.
C28_LatestFiltersOnly ==
    (requests = {} /\ homeError = "null") =>
        \A k \in 1..Len(homeImages) : homeImages[k].filters = searchFilters

\* C29 - Load-more append: the response to a load-more leaves the displayed
\* images, in their order, as a prefix of the new list, and what it adds are
\* the images of the fetched page whose id was not displayed, in page order.
C29_AppendKeepsPrefix ==
    [][ \A r \in requests : \A data \in Responses :
          (r.append /\ searchResolved(r, data)) =>
              LET shown == { homeImages[k].id : k \in 1..Len(homeImages) }
                  added == SubSeq(homeImages', Len(homeImages) + 1, Len(homeImages'))
                  IsNew(id) == id \notin shown
              IN  /\ IsPrefix(homeImages, homeImages')
                  /\ \A k \in 1..Len(added) : added[k].id \notin shown
                  /\ [k \in 1..Len(added) |-> added[k].id]
                       = SelectSeq(data.search_results, IsNew) ]_vars

\* C29 witness: images 1 and 2 were displayed and a second page holding
\* images 2 and 3 added image 3 only
C29_Witness ==
    /\ pagination.current_page = 2
    /\ requests = {}
    /\ Len(homeImages) = 3
    /\ [k \in 1..3 |-> homeImages[k].id] = <<1, 2, 3>>

\* C30 - Token gate: the protected children are rendered only when
\* initialization is over, no check is in progress and the latest finished
\* health check succeeded and was made with the token in state; when the
\* latest finished check failed and no other is under way, the key in memory
\* is null and the children are not rendered.
C30_TokenGate ==
    /\ Rendered =>
         /\ initialized
         /\ ~checking
         /\ health = <<>>
         /\ lastHealth # <<>>
         /\ lastHealth[1].ok
         /\ lastHealth[1].key = <<token>>
    /\ (lastHealth # <<>> /\ health = <<>>) =>
         (~lastHealth[1].ok => inMemoryInternalApiKey = <<>> /\ ~Rendered)

\* C30 witness: the children rendered after a token was typed, checked and
\* saved, localStorage having been empty or cleared before
C30_Witness ==
    /\ Rendered
    /\ token = "alpha"
    /\ lastHealth = <<[key |-> <<"alpha">>, ok |-> TRUE]>>
    /\ localToken = <<"alpha">>
    /\ inMemoryInternalApiKey = <<"alpha">>

\* the URL of highest priority: s3_url if available, else comp_url if
\* available, else thumbnail_url
PriorityUrl(image) ==
    IF TruthyUrl(image.s3_url) THEN image.s3_url
    ELSE IF TruthyUrl(image.comp_url) THEN image.comp_url
    ELSE image.thumbnail_url

====
